---- MODULE Spec2Model ----
(***************************************************************************)
(* Move-selection engine of the Tron agent (src/brain.py) and the local    *)
(* game loop that drives it (src/visual_tron.py).                          *)
(*                                                                         *)
(* Python values are modelled as follows.                                  *)
(*   dict            a function whose domain is the set of keys present    *)
(*   list / tuple    a sequence; Python index i is TLA+ index i + 1        *)
(*   raised error    the name of the exception in the field exc ("" when   *)
(*                   nothing was raised)                                   *)
(***************************************************************************)
EXTENDS Integers, Sequences, FiniteSets, TLC

VARIABLES
    state,             \* the snapshot handed to choose_move
    boosts_remaining,  \* its second argument
    player_number,     \* its third argument
    pc,                \* position of the caller
    exc,               \* name of the exception the call raised, "" if none
    move,              \* the token the call returned
    head,              \* (head_x, head_y) as resolved by the call
    preferred_order,   \* the preference order the call selected
    tested,            \* the candidates the call handed to _is_cell_safe
    state_b,           \* a second call: its snapshot,
    boosts_b,          \*   its boosts_remaining,
    player_b,          \*   its player_number,
    pc_b,              \*   its position ("idle" when there is no second call)
    result_b,          \*   and what it produced
    game               \* the Game instance of visual_tron.main

call_a == <<state, boosts_remaining, player_number>>
out_a == <<exc, move, head, preferred_order, tested>>
call_b == <<state_b, boosts_b, player_b>>

vars == <<state, boosts_remaining, player_number, pc, exc, move, head,
          preferred_order, tested, state_b, boosts_b, player_b, pc_b,
          result_b, game>>

----------------------------------------------------------------------------
(* Python helpers *)

\* dict.get(key, default)
Get(d, key, default) == IF key \in DOMAIN d THEN d[key] ELSE default

\* a coordinate clamped into 0 .. b-1 instead of wrapped
PyMod_clamped(a, b) ==
    IF b = 0 THEN [exc |-> "ZeroDivisionError", val |-> 0]
    ELSE IF a < 0 THEN [exc |-> "", val |-> 0]
    ELSE IF a >= b THEN [exc |-> "", val |-> b - 1]
    ELSE [exc |-> "", val |-> a]

\* a % b for integers: the result has the sign of b; b = 0 raises
PyMod(a, b) ==
    IF b = 0 THEN [exc |-> "ZeroDivisionError", val |-> 0]
    ELSE IF b > 0 THEN [exc |-> "", val |-> a % b]
    ELSE [exc |-> "", val |-> -((-a) % (-b))]

\* int(v) of a value that is already an integer
PyInt(v) == v

----------------------------------------------------------------------------
(* brain.py *)

DirectionNames == {"UP", "DOWN", "LEFT", "RIGHT"}

DIRECTION_VECTORS ==
    [d \in DirectionNames |->
        CASE d = "UP"    -> <<0, -1>>
          [] d = "DOWN"  -> <<0, 1>>
          [] d = "LEFT"  -> <<-1, 0>>
          [] d = "RIGHT" -> <<1, 0>>]

\* the head taken from the wrong end of the trail
_get_head_position_first(st, pn) ==
    LET trail == IF pn = 1 THEN Get(st, "agent1_trail", <<>>)
                 ELSE Get(st, "agent2_trail", <<>>)
    IN  IF trail = <<>> THEN <<0, 0>>
        ELSE LET h == trail[1]
             IN  <<PyInt(h[1]), PyInt(h[2])>>

_get_head_position(st, pn) ==
    LET trail == IF pn = 1 THEN Get(st, "agent1_trail", <<>>)
                 ELSE Get(st, "agent2_trail", <<>>)
    IN  IF trail = <<>> THEN <<0, 0>>
        ELSE LET h == trail[Len(trail)]
             IN  <<PyInt(h[1]), PyInt(h[2])>>

_get_board_size(board) ==
    IF board = <<>> \/ board[1] = <<>> THEN <<0, 0>>
    ELSE <<Len(board[1]), Len(board)>>

\* only marker 1 treated as occupied
_is_cell_safe_marker1(board, x, y) ==
    LET height == Len(board) IN
    IF height = 0 THEN [exc |-> "", safe |-> TRUE, read |-> <<>>]
    ELSE
      LET width == Len(board[1])
          mx == PyMod(x, width)
          my == PyMod(y, height)
      IN  IF mx.exc # "" THEN [exc |-> mx.exc, safe |-> FALSE, read |-> <<>>]
          ELSE IF my.exc # "" THEN [exc |-> my.exc, safe |-> FALSE, read |-> <<>>]
          ELSE IF ~(my.val + 1 \in DOMAIN board
                    /\ mx.val + 1 \in DOMAIN board[my.val + 1])
               THEN [exc |-> "IndexError", safe |-> FALSE, read |-> <<>>]
          ELSE [exc |-> "", safe |-> (board[my.val + 1][mx.val + 1] # 1),
                read |-> <<mx.val, my.val>>]

\* [exc, safe, read]: read is the cell whose marker was read, <<>> if none
_is_cell_safe(board, x, y) ==
    LET height == Len(board) IN
    IF height = 0 THEN [exc |-> "", safe |-> TRUE, read |-> <<>>]
    ELSE
      LET width == Len(board[1])
          mx == PyMod(x, width)
          my == PyMod(y, height)
      IN  IF mx.exc # "" THEN [exc |-> mx.exc, safe |-> FALSE, read |-> <<>>]
          ELSE IF my.exc # "" THEN [exc |-> my.exc, safe |-> FALSE, read |-> <<>>]
          ELSE IF ~(my.val + 1 \in DOMAIN board
                    /\ mx.val + 1 \in DOMAIN board[my.val + 1])
               THEN [exc |-> "IndexError", safe |-> FALSE, read |-> <<>>]
          ELSE [exc |-> "", safe |-> (board[my.val + 1][mx.val + 1] = 0),
                read |-> <<mx.val, my.val>>]

\* the for loop of _choose_safe_direction from position i of preferred_order:
\* [exc, found, move, tested]; found is FALSE when the loop runs to its end;
\* seen accumulates one entry per candidate handed to _is_cell_safe
RECURSIVE direction_loop(_, _, _, _, _, _, _, _)
direction_loop(board, width, height, head_x, head_y, order, i, seen) ==
    IF i > Len(order)
    THEN [exc |-> "", found |-> FALSE, move |-> "", tested |-> seen]
    ELSE
      LET direction_name == order[i]
          dx == DIRECTION_VECTORS[direction_name][1]
          dy == DIRECTION_VECTORS[direction_name][2]
          new_x == PyMod(head_x + dx, width)
          new_y == PyMod(head_y + dy, height)
      IN  IF new_x.exc # ""
          THEN [exc |-> new_x.exc, found |-> FALSE, move |-> "", tested |-> seen]
          ELSE IF new_y.exc # ""
          THEN [exc |-> new_y.exc, found |-> FALSE, move |-> "", tested |-> seen]
          ELSE
            LET r == _is_cell_safe(board, new_x.val, new_y.val)
                now == Append(seen, [dir |-> direction_name,
                                     cell |-> <<new_x.val, new_y.val>>,
                                     read |-> r.read])
            IN  IF r.exc # ""
                THEN [exc |-> r.exc, found |-> FALSE, move |-> "", tested |-> now]
                ELSE IF r.safe
                THEN [exc |-> "", found |-> TRUE, move |-> direction_name,
                      tested |-> now]
                ELSE direction_loop(board, width, height, head_x, head_y,
                                    order, i + 1, now)

\* the size guard testing the height alone
_choose_safe_direction_height_only(board, head_x, head_y, order) ==
    LET width == IF board = <<>> THEN 0 ELSE Len(board[1])
        height == Len(board)
    IN  IF height = 0
        THEN [exc |-> "", move |-> "RIGHT", tested |-> <<>>]
        ELSE LET r == direction_loop(board, width, height, head_x, head_y,
                                     order, 1, <<>>)
             IN  IF r.exc = "" /\ ~r.found
                 THEN [exc |-> "", move |-> "RIGHT", tested |-> r.tested]
                 ELSE [exc |-> r.exc, move |-> r.move, tested |-> r.tested]

\* the fallback returning the last direction tried
_choose_safe_direction_last_tried(board, head_x, head_y, order) ==
    LET size == _get_board_size(board)
        width == size[1]
        height == size[2]
    IN  IF width = 0 \/ height = 0
        THEN [exc |-> "", move |-> "RIGHT", tested |-> <<>>]
        ELSE LET r == direction_loop(board, width, height, head_x, head_y,
                                     order, 1, <<>>)
             IN  IF r.exc = "" /\ ~r.found
                 THEN [exc |-> "", move |-> order[Len(order)], tested |-> r.tested]
                 ELSE [exc |-> r.exc, move |-> r.move, tested |-> r.tested]

\* [exc, move, tested]
_choose_safe_direction(board, head_x, head_y, order) ==
    LET size == _get_board_size(board)
        width == size[1]
        height == size[2]
    IN  IF width = 0 \/ height = 0
        THEN [exc |-> "", move |-> "RIGHT", tested |-> <<>>]
        ELSE LET r == direction_loop(board, width, height, head_x, head_y,
                                     order, 1, <<>>)
             IN  IF r.exc = "" /\ ~r.found
                 THEN [exc |-> "", move |-> "RIGHT", tested |-> r.tested]
                 ELSE [exc |-> r.exc, move |-> r.move, tested |-> r.tested]

\* the orders of patterns 1 and 2 exchanged
PreferredOrder_exchanged(turn) ==
    LET pattern == PyMod(turn, 4).val
    IN  IF pattern = 0 THEN <<"RIGHT", "DOWN", "UP", "LEFT">>
        ELSE IF pattern = 1 THEN <<"LEFT", "UP", "DOWN", "RIGHT">>
        ELSE IF pattern = 2 THEN <<"DOWN", "LEFT", "RIGHT", "UP">>
        ELSE <<"UP", "RIGHT", "LEFT", "DOWN">>

\* an order that names UP twice and never DOWN
PreferredOrder_incomplete(turn) ==
    LET pattern == PyMod(turn, 4).val
    IN  IF pattern = 0 THEN <<"RIGHT", "DOWN", "UP", "LEFT">>
        ELSE IF pattern = 1 THEN <<"DOWN", "LEFT", "RIGHT", "UP">>
        ELSE IF pattern = 2 THEN <<"LEFT", "UP", "DOWN", "RIGHT">>
        ELSE <<"UP", "RIGHT", "LEFT", "UP">>

\* the pattern taken from the turn counter without the modulo
PreferredOrder_no_modulo(turn) ==
    LET pattern == turn
    IN  IF pattern = 0 THEN <<"RIGHT", "DOWN", "UP", "LEFT">>
        ELSE IF pattern = 1 THEN <<"DOWN", "LEFT", "RIGHT", "UP">>
        ELSE IF pattern = 2 THEN <<"LEFT", "UP", "DOWN", "RIGHT">>
        ELSE <<"UP", "RIGHT", "LEFT", "DOWN">>

\* the if/elif chain on pattern = turn % 4
PreferredOrder(turn) ==
    LET pattern == PyMod(turn, 4).val
    IN  IF pattern = 0 THEN <<"RIGHT", "DOWN", "UP", "LEFT">>
        ELSE IF pattern = 1 THEN <<"DOWN", "LEFT", "RIGHT", "UP">>
        ELSE IF pattern = 2 THEN <<"LEFT", "UP", "DOWN", "RIGHT">>
        ELSE <<"UP", "RIGHT", "LEFT", "DOWN">>

\* the boost suffix appended while boosts remain
choose_move_boost(st, boosts, pn) ==
    LET board == Get(st, "board", <<>>) IN
    IF board = <<>>
    THEN [exc |-> "", move |-> "RIGHT", head |-> <<>>, order |-> <<>>,
          tested |-> <<>>]
    ELSE
      LET hd == _get_head_position(st, pn)
          turn == Get(st, "turn_count", 0)
          order == PreferredOrder(turn)
          r == _choose_safe_direction(board, hd[1], hd[2], order)
      IN  [exc |-> r.exc,
           move |-> IF boosts > 0 THEN r.move \o ":BOOST" ELSE r.move,
           head |-> hd, order |-> order, tested |-> r.tested]

\* the opponent's trail consulted when the own trail is empty
choose_move_other_trail(st, boosts, pn) ==
    LET board == Get(st, "board", <<>>) IN
    IF board = <<>>
    THEN [exc |-> "", move |-> "RIGHT", head |-> <<>>, order |-> <<>>,
          tested |-> <<>>]
    ELSE
      LET own == _get_head_position(st, pn)
          hd == IF own = <<0, 0>> THEN _get_head_position(st, 3 - pn) ELSE own
          turn == Get(st, "turn_count", 0)
          order == PreferredOrder(turn)
          r == _choose_safe_direction(board, hd[1], hd[2], order)
      IN  [exc |-> r.exc, move |-> r.move, head |-> hd, order |-> order,
           tested |-> r.tested]

\* [exc, move, head, order, tested]; head and order are <<>> when the call
\* returns before computing them
choose_move(st, boosts, pn) ==
    LET board == Get(st, "board", <<>>) IN
    IF board = <<>>
    THEN [exc |-> "", move |-> "RIGHT", head |-> <<>>, order |-> <<>>,
          tested |-> <<>>]
    ELSE
      LET hd == _get_head_position(st, pn)
          turn == Get(st, "turn_count", 0)
          order == PreferredOrder(turn)
          r == _choose_safe_direction(board, hd[1], hd[2], order)
      IN  [exc |-> r.exc, move |-> r.move, head |-> hd, order |-> order,
           tested |-> r.tested]

----------------------------------------------------------------------------
(* Input snapshots *)

MaxSide == 3       \* boards of every shape with width, height <= MaxSide
MaxCells == 9      \*   and width * height <= MaxCells
MaxCoord == 3      \* trail coordinates range over -2 .. MaxCoord + 1
MaxTurn == 5       \* turn_count ranges over -MaxTurn .. MaxTurn + 1
MaxBoosts == 1     \* boosts_remaining ranges over 0 .. MaxBoosts

\* marker of an occupied cell: the id of one of the two agents
Marker(x, y) == 1 + ((x + y) % 2)

\* the W x H grid whose occupied cells (0-based (x, y)) are those of occ
Grid(W, H, occ) ==
    [r \in 1..H |-> [c \in 1..W |->
        IF <<c - 1, r - 1>> \in occ THEN Marker(c - 1, r - 1) ELSE 0]]

Cells(W, H) == (0..(W - 1)) \X (0..(H - 1))

Shapes == {s \in (1..MaxSide) \X (1..MaxSide) : s[1] * s[2] <= MaxCells}

BoardsOfShape(s) == {Grid(s[1], s[2], occ) : occ \in SUBSET Cells(s[1], s[2])}

\* boards for which width or height resolves to 0
DegenerateBoards == { <<>>, << <<>> >>, << <<>>, <<>> >>, << <<>>, <<1>> >> }

SampleBoards ==
    { Grid(3, 3, {}),
      Grid(3, 3, Cells(3, 3)),
      Grid(3, 3, {c \in Cells(3, 3) : (c[1] + c[2]) % 2 = 1}),
      Grid(3, 3, {c \in Cells(3, 3) : c[1] = 0 \/ c[2] = 2}),
      Grid(2, 3, {<<0, 0>>, <<1, 2>>}),
      Grid(4, 2, {<<1, 0>>, <<2, 1>>, <<3, 0>>}) }

Coords == (-2)..(MaxCoord + 1)
Points == Coords \X Coords
EarlierPoints == {<<0, 0>>, <<2, 1>>}

\* an optional dict entry is a pair <<present, value>>
Absent == <<FALSE, <<>>>>
Entry(key, opt) == IF opt[1] THEN key :> opt[2] ELSE <<>>

TrailOptions ==
    {Absent, <<TRUE, <<>>>>}
    \cup {<<TRUE, <<p>>>> : p \in Points}
    \cup {<<TRUE, <<e, p>>>> : e \in EarlierPoints, p \in Points}

OtherTrailOptions ==
    {Absent, <<TRUE, <<>>>>, <<TRUE, <<<<1, 1>>>>>>, <<TRUE, <<<<0, 2>>, <<2, 2>>>>>>}

TurnOptions == {Absent} \cup {<<TRUE, t>> : t \in (-MaxTurn)..(MaxTurn + 1)}

BoardOptions == {Absent} \cup {<<TRUE, b>> : b \in DegenerateBoards \cup SampleBoards}

\* the fields build_state_from_game adds and choose_move never reads
ExtraFields(len, alive, boosts, pn) ==
    [agent1_length |-> len, agent2_length |-> len + 1,
     agent1_alive |-> alive, agent2_alive |-> TRUE,
     agent1_boosts |-> boosts, agent2_boosts |-> boosts,
     player_number |-> pn]

ExtraOptions ==
    {<<>>} \cup {ExtraFields(len, alive, b, pn) :
                    len \in {1, 2}, alive \in BOOLEAN, b \in 0..MaxBoosts,
                    pn \in {1, 2}}

\* the snapshot of player pn: own is its trail, other the opponent's
Snapshot(board, own, other, turn, extra, pn) ==
    Entry("board", board)
    @@ Entry(IF pn = 1 THEN "agent1_trail" ELSE "agent2_trail", own)
    @@ Entry(IF pn = 1 THEN "agent2_trail" ELSE "agent1_trail", other)
    @@ Entry("turn_count", turn)
    @@ extra

----------------------------------------------------------------------------
(* One call of choose_move on an input snapshot *)

NoResult == [exc |-> "", move |-> "", head |-> <<>>, order |-> <<>>, tested |-> <<>>]

Fresh ==
    /\ pc = "ready"
    /\ exc = ""
    /\ move = ""
    /\ head = <<>>
    /\ preferred_order = <<>>
    /\ tested = <<>>
    /\ result_b = NoResult

NoSecondCall ==
    /\ state_b = <<>>
    /\ boosts_b = 0
    /\ player_b = 0
    /\ pc_b = "idle"

NoGame == game = <<>>

\* every board of every shape of Shapes, the head on every cell of it
InitBoards ==
    \E s \in Shapes : \E b \in BoardsOfShape(s) : \E h \in Cells(s[1], s[2]) :
    \E t \in 0..3 :
        /\ state = Snapshot(<<TRUE, b>>, <<TRUE, <<h>>>>, Absent, <<TRUE, t>>, <<>>, 1)
        /\ boosts_remaining = 0
        /\ player_number = 1

\* every board option, trail, turn counter and player on a few boards
InitTrails ==
    \E b \in BoardOptions : \E own \in TrailOptions : \E t \in TurnOptions :
    \E pn \in {1, 2} :
        /\ state = Snapshot(b, own, <<TRUE, <<<<1, 1>>>>>>, t, <<>>, pn)
        /\ boosts_remaining = 0
        /\ player_number = pn

\* the fields and arguments the move selection does not consume
InitFields ==
    \E b \in BoardOptions : \E own \in {Absent, <<TRUE, <<<<2, 1>>>>>>} :
    \E other \in OtherTrailOptions : \E extra \in ExtraOptions :
    \E boosts \in 0..MaxBoosts : \E pn \in 0..3 :
        /\ state = Snapshot(b, own, other, <<TRUE, 1>>, extra, pn)
        /\ boosts_remaining = boosts
        /\ player_number = pn

Init == Fresh /\ NoSecondCall /\ NoGame /\ (InitBoards \/ InitTrails \/ InitFields)

Call ==
    /\ pc = "ready"
    /\ LET r == choose_move(state, boosts_remaining, player_number)
       IN  /\ exc' = r.exc
           /\ move' = r.move
           /\ head' = r.head
           /\ preferred_order' = r.order
           /\ tested' = r.tested
    /\ pc' = "done"
    /\ UNCHANGED <<call_a, call_b, pc_b, result_b, game>>

Next == Call

Spec == Init /\ [][Next]_vars

----------------------------------------------------------------------------
(* Two calls in a row, the second on a variant of the first snapshot *)

DefaultOther == <<TRUE, <<<<1, 1>>>>>>

PairTrails ==
    {Absent, <<TRUE, <<>>>>}
    \cup {<<TRUE, <<p>>>> : p \in {<<0, 0>>, <<1, 1>>, <<2, 1>>, <<0, 2>>,
                                   <<-1, 3>>, <<4, -2>>}}

\* two full cycles of the rotation
PairTurns == {Absent} \cup {<<TRUE, t>> : t \in (-4)..3}

ExtraSamples ==
    {<<>>, ExtraFields(1, TRUE, 0, 1), ExtraFields(2, FALSE, MaxBoosts, 2)}

\* the turn entry moved by d, an absent entry staying absent
Shift(turn, d) == IF turn[1] THEN <<TRUE, turn[2] + d>> ELSE turn

\* the second call's <<board, own, other, turn, extra, player, boosts>>
Variants(b, own, t, pn) ==
    {<<b, own, o, t, e, pn, 0>> : o \in OtherTrailOptions, e \in ExtraSamples}
    \cup {<<b, own, DefaultOther, t, <<>>, p, bo>> : p \in {1, 2}, bo \in 0..MaxBoosts}
    \cup {<<b, own, <<TRUE, <<>>>>, t, ExtraFields(2, FALSE, MaxBoosts, 2),
            3 - pn, MaxBoosts>>}
    \cup {<<b, own, DefaultOther, Shift(t, d), <<>>, pn, 0>> : d \in {-4, 1, 2, 4}}
    \cup {<<b, <<TRUE, <<<<2, 1>>>>>>, DefaultOther, t, <<>>, pn, 0>>,
          <<<<TRUE, Grid(3, 3, {})>>, own, DefaultOther, t, <<>>, pn, 0>>}

InitPair ==
    \E b \in BoardOptions : \E own \in PairTrails : \E t \in PairTurns :
    \E pn \in {1, 2} : \E v \in Variants(b, own, t, pn) :
        /\ state = Snapshot(b, own, DefaultOther, t, <<>>, pn)
        /\ boosts_remaining = 0
        /\ player_number = pn
        /\ state_b = Snapshot(v[1], v[2], v[3], v[4], v[5], v[6])
        /\ boosts_b = v[7]
        /\ player_b = v[6]
        /\ pc_b = "ready"

PairInit == Fresh /\ NoGame /\ InitPair

CallSecond ==
    /\ pc = "done"
    /\ pc_b = "ready"
    /\ result_b' = choose_move(state_b, boosts_b, player_b)
    /\ pc_b' = "done"
    /\ UNCHANGED <<call_a, out_a, pc, call_b, game>>

PairNext == Call \/ CallSecond

PairSpec == PairInit /\ [][PairNext]_vars

----------------------------------------------------------------------------
(* visual_tron.py: the local game loop, both agents driven by choose_move *)

MaxGameSide == 4   \* game boards of width and height 2 .. MaxGameSide

\* Game(): an empty W x H torus, each agent on its starting cell
NewGame(W, H, p1, p2) ==
    [board |-> [r \in 1..H |-> [c \in 1..W |->
                  IF <<c - 1, r - 1>> = p1 THEN 1
                  ELSE IF <<c - 1, r - 1>> = p2 THEN 2 ELSE 0]],
     agent1 |-> [trail |-> <<p1>>, alive |-> TRUE, length |-> 1,
                 boosts_remaining |-> 3],
     agent2 |-> [trail |-> <<p2>>, alive |-> TRUE, length |-> 1,
                 boosts_remaining |-> 3],
     turns |-> 0]

\* Game.step: each agent enters the wrapped cell next to its head; entering an
\* occupied cell, or the cell the other agent enters, kills it; an applied
\* move marks the entered cell and extends the trail; the turn counter grows
\* by one
GameStep(g, dir1, dir2) ==
    LET H == Len(g.board)
        W == Len(g.board[1])
        Enter(a, d) ==
            LET h == a.trail[Len(a.trail)]
            IN  <<(h[1] + DIRECTION_VECTORS[d][1]) % W,
                  (h[2] + DIRECTION_VECTORS[d][2]) % H>>
        n1 == Enter(g.agent1, dir1)
        n2 == Enter(g.agent2, dir2)
        hit1 == g.board[n1[2] + 1][n1[1] + 1] # 0 \/ n1 = n2
        hit2 == g.board[n2[2] + 1][n2[1] + 1] # 0 \/ n1 = n2
        Moved(a, n, hit) ==
            IF hit THEN [a EXCEPT !.alive = FALSE]
            ELSE [a EXCEPT !.trail = Append(@, n), !.length = @ + 1]
    IN  [board |-> [r \in 1..H |-> [c \in 1..W |->
                      IF ~hit1 /\ <<c - 1, r - 1>> = n1 THEN 1
                      ELSE IF ~hit2 /\ <<c - 1, r - 1>> = n2 THEN 2
                      ELSE g.board[r][c]]],
         agent1 |-> Moved(g.agent1, n1, hit1),
         agent2 |-> Moved(g.agent2, n2, hit2),
         turns |-> g.turns + 1]

\* the GameResult of step, "NONE" while both agents are alive
GameResult(g) ==
    IF ~g.agent1.alive /\ ~g.agent2.alive THEN "DRAW"
    ELSE IF ~g.agent1.alive THEN "AGENT2_WIN"
    ELSE IF ~g.agent2.alive THEN "AGENT1_WIN"
    ELSE "NONE"

build_state_from_game(g, pn) ==
    [board |-> g.board,
     agent1_trail |-> g.agent1.trail,
     agent2_trail |-> g.agent2.trail,
     agent1_length |-> g.agent1.length,
     agent2_length |-> g.agent2.length,
     agent1_alive |-> g.agent1.alive,
     agent2_alive |-> g.agent2.alive,
     agent1_boosts |-> g.agent1.boosts_remaining,
     agent2_boosts |-> g.agent2.boosts_remaining,
     turn_count |-> g.turns,
     player_number |-> pn]

\* <<direction, use_boost>>; an unknown direction falls back to RIGHT
move_str_to_direction_and_boost(move_str) ==
    IF \E d \in DirectionNames : move_str = d \o ":BOOST"
    THEN <<CHOOSE d \in DirectionNames : move_str = d \o ":BOOST", TRUE>>
    ELSE IF move_str \in DirectionNames THEN <<move_str, FALSE>>
    ELSE <<"RIGHT", FALSE>>

GameSides == 2..MaxGameSide

GameInit ==
    /\ \E W \in GameSides : \E H \in GameSides :
       \E p1 \in Cells(W, H) : \E p2 \in Cells(W, H) \ {p1} :
           game = NewGame(W, H, p1, p2)
    /\ pc = "loop"
    /\ state = <<>> /\ boosts_remaining = 0 /\ player_number = 0
    /\ exc = "" /\ move = "" /\ head = <<>> /\ preferred_order = <<>>
    /\ tested = <<>>
    /\ state_b = <<>> /\ boosts_b = 0 /\ player_b = 0 /\ pc_b = "idle"
    /\ result_b = NoResult

\* main, lines 159-169: both agents choose on the same game state
Decide ==
    /\ pc = "loop"
    /\ LET state1 == build_state_from_game(game, 1)
           boosts1 == game.agent1.boosts_remaining
           r1 == choose_move(state1, boosts1, 1)
           state2 == build_state_from_game(game, 2)
           boosts2 == game.agent2.boosts_remaining
       IN  /\ state' = state1
           /\ boosts_remaining' = boosts1
           /\ player_number' = 1
           /\ exc' = r1.exc
           /\ move' = r1.move
           /\ head' = r1.head
           /\ preferred_order' = r1.order
           /\ tested' = r1.tested
           /\ state_b' = state2
           /\ boosts_b' = boosts2
           /\ player_b' = 2
           /\ result_b' = IF r1.exc = "" THEN choose_move(state2, boosts2, 2)
                          ELSE NoResult
           /\ pc' = IF r1.exc = "" /\ result_b'.exc = "" THEN "step" ELSE "crashed"
    /\ UNCHANGED <<pc_b, game>>

\* main, line 172 and the loop condition
Step ==
    /\ pc = "step"
    /\ LET dir1 == move_str_to_direction_and_boost(move)[1]
           dir2 == move_str_to_direction_and_boost(result_b.move)[1]
       IN  game' = GameStep(game, dir1, dir2)
    /\ pc' = IF GameResult(game') = "NONE" THEN "loop" ELSE "over"
    /\ UNCHANGED <<call_a, out_a, call_b, pc_b, result_b>>

GameNext == Decide \/ Step

GameSpec == GameInit /\ [][GameNext]_vars

----------------------------------------------------------------------------
(* Vocabulary of the properties, stated over the input snapshot alone *)

Tokens == {"UP", "DOWN", "LEFT", "RIGHT"}

\* unit vector of a direction token
UnitVector(d) ==
    CASE d = "UP" -> <<0, -1>> [] d = "DOWN" -> <<0, 1>>
      [] d = "LEFT" -> <<-1, 0>> [] d = "RIGHT" -> <<1, 0>>

\* the representative of v in 0 .. n-1 reached from v in steps of n
RECURSIVE Wrapped(_, _)
Wrapped(v, n) ==
    IF v < 0 THEN Wrapped(v + n, n)
    ELSE IF v >= n THEN Wrapped(v - n, n)
    ELSE v

\* preference order of each residue of turn_count modulo 4
OrderOfResidue ==
    << <<"RIGHT", "DOWN", "UP", "LEFT">>,
       <<"DOWN", "LEFT", "RIGHT", "UP">>,
       <<"LEFT", "UP", "DOWN", "RIGHT">>,
       <<"UP", "RIGHT", "LEFT", "DOWN">> >>

OrderOfTurn(t) == OrderOfResidue[Wrapped(t, 4) + 1]

\* the board of a snapshot (the empty grid when absent), and whether its
\* width or height resolves to 0
BoardOf(st) == IF "board" \in DOMAIN st THEN st["board"] ELSE <<>>
DegenerateBoard(b) == b = <<>> \/ b[1] = <<>>
WidthOf(b) == Len(b[1])
HeightOf(b) == Len(b)
MarkerAt(b, c) == b[c[2] + 1][c[1] + 1]

\* the trail of the requesting player (empty when absent) and its head
TrailOf(st, pn) ==
    LET key == IF pn = 1 THEN "agent1_trail" ELSE "agent2_trail"
    IN  IF key \in DOMAIN st THEN st[key] ELSE <<>>
HeadOf(st, pn) ==
    IF TrailOf(st, pn) = <<>> THEN <<0, 0>>
    ELSE TrailOf(st, pn)[Len(TrailOf(st, pn))]

\* the wrapped cell adjacent to cell h in direction d on board b
Neighbour(b, h, d) ==
    <<Wrapped(h[1] + UnitVector(d)[1], WidthOf(b)),
      Wrapped(h[2] + UnitVector(d)[2], HeightOf(b))>>

EmptyDirections(b, h) == {d \in Tokens : MarkerAt(b, Neighbour(b, h, d)) = 0}

\* the first-call snapshot
GivenBoard == BoardOf(state)
GivenHead == HeadOf(state, player_number)
TurnGiven == "turn_count" \in DOMAIN state

\* a finished call by player 1 or 2 on a board with cells
Decided ==
    /\ pc = "done"
    /\ player_number \in {1, 2}
    /\ ~DegenerateBoard(GivenBoard)

OutsideBoard(b, c) ==
    ~(c[1] \in 0..(WidthOf(b) - 1) /\ c[2] \in 0..(HeightOf(b) - 1))

----------------------------------------------------------------------------
(* Properties of one call *)

\* C1 (Totality): a finished call has raised nothing and has returned exactly
\* one of the four tokens UP, DOWN, LEFT, RIGHT, whatever the board (absent,
\* empty, empty first row, or with cells), the trails, the head position, the
\* turn counter (absent, negative, any residue), the player number and the
\* boosts.
C1_Totality == pc = "done" => (exc = "" /\ move \in Tokens)

\* a call with a head outside the board and a negative turn counter, on a
\* board with cells, has finished with a token
C1_Witness ==
    /\ Decided
    /\ OutsideBoard(GivenBoard, GivenHead)
    /\ TurnGiven /\ state["turn_count"] < 0
    /\ move \in Tokens

\* C2 (First-safe selection): on a board with cells, when some direction has
\* an empty wrapped candidate cell, the call returns the first such direction
\* in the preference order of turn_count mod 4; in the two scenarios of the
\* specification it returns RIGHT, respectively DOWN.
C2_FirstSafe ==
    /\ (Decided /\ TurnGiven) =>
          LET order == OrderOfTurn(state["turn_count"])
              safe == {i \in 1..4 : order[i] \in EmptyDirections(GivenBoard, GivenHead)}
          IN  safe # {} =>
                \E i \in safe : /\ move = order[i]
                                /\ \A j \in 1..(i - 1) : j \notin safe
    /\ (/\ pc = "done" /\ player_number = 1
        /\ GivenBoard = <<<<0, 0, 0>>, <<0, 0, 0>>, <<0, 0, 0>>>>
        /\ TrailOf(state, 1) = <<<<1, 1>>>>
        /\ TurnGiven /\ state["turn_count"] = 0) => move = "RIGHT"
    /\ (/\ Decided /\ WidthOf(GivenBoard) = 3 /\ HeightOf(GivenBoard) = 3
        /\ GivenHead = <<2, 1>>
        /\ MarkerAt(GivenBoard, <<0, 1>>) # 0 /\ MarkerAt(GivenBoard, <<2, 2>>) = 0
        /\ TurnGiven /\ state["turn_count"] = 0) => move = "DOWN"

\* the second scenario: RIGHT wraps onto an occupied cell, DOWN is returned
C2_Witness ==
    /\ Decided /\ WidthOf(GivenBoard) = 3 /\ HeightOf(GivenBoard) = 3
    /\ GivenHead = <<2, 1>>
    /\ MarkerAt(GivenBoard, <<0, 1>>) # 0 /\ MarkerAt(GivenBoard, <<2, 2>>) = 0
    /\ TurnGiven /\ state["turn_count"] = 0
    /\ move = "DOWN"

\* C3 (Safety preference): on a board with cells, when exactly one of the
\* wrapped adjacent cells of the head is empty, the call returns a direction
\* leading to that cell, for every turn counter.
C3_SafetyPreference ==
    Decided =>
      LET free == {Neighbour(GivenBoard, GivenHead, d) : d \in EmptyDirections(GivenBoard, GivenHead)}
      IN  Cardinality(free) = 1 =>
            (move \in Tokens /\ Neighbour(GivenBoard, GivenHead, move) \in free)

\* four distinct neighbours, the only empty one is the last of the preference
\* order, and the call returns it
C3_Witness ==
    /\ Decided /\ TurnGiven
    /\ Cardinality({Neighbour(GivenBoard, GivenHead, d) : d \in Tokens}) = 4
    /\ EmptyDirections(GivenBoard, GivenHead) = {OrderOfTurn(state["turn_count"])[4]}
    /\ move = OrderOfTurn(state["turn_count"])[4]

\* C4 (Fallback): on a board with cells, when all four wrapped adjacent cells
\* of the head are occupied, the call returns RIGHT (whose cell is occupied).
C4_Fallback ==
    (Decided /\ EmptyDirections(GivenBoard, GivenHead) = {}) =>
        (move = "RIGHT" /\ MarkerAt(GivenBoard, Neighbour(GivenBoard, GivenHead, "RIGHT")) # 0)

\* a surrounded head in a turn whose preference order does not start with RIGHT
C4_Witness ==
    /\ Decided /\ TurnGiven
    /\ Cardinality({Neighbour(GivenBoard, GivenHead, d) : d \in Tokens}) = 4
    /\ EmptyDirections(GivenBoard, GivenHead) = {}
    /\ OrderOfTurn(state["turn_count"])[4] # "RIGHT"
    /\ OrderOfTurn(state["turn_count"])[1] # "RIGHT"
    /\ move = "RIGHT"

\* C5 (Degenerate board): when the board is absent, the empty grid or has an
\* empty first row, the call returns RIGHT without raising and without
\* testing or reading any cell, for every trail, turn counter, player number
\* and boosts.
C5_DegenerateBoard ==
    (pc = "done" /\ DegenerateBoard(GivenBoard)) =>
        (move = "RIGHT" /\ exc = "" /\ tested = <<>>)

\* a present board with an empty first row, a non-empty trail, player 2
C5_Witness ==
    /\ pc = "done" /\ "board" \in DOMAIN state /\ GivenBoard # <<>>
    /\ DegenerateBoard(GivenBoard)
    /\ player_number = 2 /\ TrailOf(state, 2) # <<>>
    /\ TurnGiven /\ state["turn_count"] = 3
    /\ move = "RIGHT"

\* C6 (Wraparound): on a board of width W and height H every tested candidate
\* lies in [0,W) x [0,H), is the head plus the unit vector up to multiples of
\* W and H, and is the cell that is read; from (0,0) UP tests (0,H-1) and LEFT
\* tests (W-1,0), RIGHT from the last column tests column 0 and DOWN from the
\* last row tests row 0; a head outside the board is wrapped, not rejected.
C6_Wraparound ==
    Decided =>
      LET W == WidthOf(GivenBoard)
          H == HeightOf(GivenBoard)
      IN  /\ tested # <<>>
          /\ \A i \in DOMAIN tested :
               LET t == tested[i] IN
               /\ t.cell[1] \in 0..(W - 1) /\ t.cell[2] \in 0..(H - 1)
               /\ t.cell = Neighbour(GivenBoard, GivenHead, t.dir)
               /\ t.read = t.cell
               /\ (GivenHead = <<0, 0>> /\ t.dir = "UP") => t.cell = <<0, H - 1>>
               /\ (GivenHead = <<0, 0>> /\ t.dir = "LEFT") => t.cell = <<W - 1, 0>>
               /\ (GivenHead[1] = W - 1 /\ t.dir = "RIGHT") => t.cell[1] = 0
               /\ (GivenHead[2] = H - 1 /\ t.dir = "DOWN") => t.cell[2] = 0

\* a head outside the board on both axes whose four candidates were all tested
C6_Witness ==
    /\ Decided
    /\ GivenHead[1] < 0 /\ GivenHead[2] > HeightOf(GivenBoard)
    /\ Len(tested) = 4
    /\ \A i \in DOMAIN tested :
         ~OutsideBoard(GivenBoard, tested[i].cell)

\* C9 (GivenHead resolution): the head the call resolves is the last element of
\* agent1_trail for player 1 and of agent2_trail for player 2, (0,0) when that
\* trail is empty or absent, and the candidates are generated from it.
C9_HeadResolution ==
    (pc = "done" /\ player_number \in {1, 2} /\ GivenBoard # <<>>) =>
        /\ head = GivenHead
        /\ \A i \in DOMAIN tested :
             tested[i].cell = Neighbour(GivenBoard, GivenHead, tested[i].dir)

\* player 2 with a two-element trail whose elements differ, and the opponent's
\* trail ending elsewhere
C9_Witness ==
    /\ Decided /\ player_number = 2
    /\ Len(TrailOf(state, 2)) = 2
    /\ TrailOf(state, 2)[1] # TrailOf(state, 2)[2]
    /\ TrailOf(state, 1) # <<>> /\ HeadOf(state, 1) # HeadOf(state, 2)
    /\ head = TrailOf(state, 2)[2]
    /\ tested # <<>>

\* an absent trail resolves to the origin
C9_WitnessAbsent ==
    /\ Decided /\ TrailOf(state, player_number) = <<>> /\ head = <<0, 0>>

----------------------------------------------------------------------------
(* Properties of two calls *)

BothDone == pc = "done" /\ pc_b = "done"

\* the two snapshots agree on the board and on the requesting player's trail
SameBoardAndTrail ==
    /\ BoardOf(state) = BoardOf(state_b)
    /\ TrailOf(state, player_number) = TrailOf(state_b, player_b)

\* the two snapshots agree on turn_count
SameTurn ==
    /\ ("turn_count" \in DOMAIN state) = ("turn_count" \in DOMAIN state_b)
    /\ TurnGiven => state["turn_count"] = state_b["turn_count"]

\* C7 (Rotation determinism): the preference order of a call is the fixed
\* permutation of its turn_count residue modulo 4, whoever the player is, and
\* two calls on the same board and trail with turn counters t and t + 4 test
\* the same candidates in the same order and return the same direction.
C7_RotationDeterminism ==
    /\ (pc = "done" /\ GivenBoard # <<>> /\ TurnGiven) =>
          /\ preferred_order = OrderOfTurn(state["turn_count"])
          /\ {preferred_order[i] : i \in 1..4} = Tokens
    /\ (/\ BothDone /\ SameBoardAndTrail
        /\ TurnGiven /\ "turn_count" \in DOMAIN state_b
        /\ state_b["turn_count"] = state["turn_count"] + 4) =>
          /\ result_b.order = preferred_order
          /\ result_b.tested = tested
          /\ result_b.move = move
          /\ result_b.exc = exc

\* turn counters -3 and 1 on a board with cells: same order, not starting
\* with RIGHT, same candidates, same move
C7_Witness ==
    /\ BothDone /\ SameBoardAndTrail /\ ~DegenerateBoard(GivenBoard)
    /\ TurnGiven /\ "turn_count" \in DOMAIN state_b
    /\ state["turn_count"] = -3 /\ state_b["turn_count"] = 1
    /\ preferred_order = <<"DOWN", "LEFT", "RIGHT", "UP">>
    /\ Len(tested) > 1
    /\ result_b.tested = tested /\ result_b.move = move

\* C8 (Input independence): two calls whose snapshots agree on the board, on
\* the requesting player's trail and on turn_count return the same direction,
\* whatever the boosts, the other player's trail and the other snapshot fields,
\* present or absent.
C8_InputIndependence ==
    (BothDone /\ SameBoardAndTrail /\ SameTurn) =>
        (result_b.move = move /\ result_b.exc = exc)

\* the second call differs in the opponent's trail, the optional fields, the
\* boosts and the player number, and returns the same direction
C8_Witness ==
    /\ BothDone /\ SameBoardAndTrail /\ SameTurn
    /\ ~DegenerateBoard(GivenBoard)
    /\ player_b # player_number
    /\ boosts_b # boosts_remaining
    /\ TrailOf(state, 3 - player_number) # TrailOf(state_b, 3 - player_b)
    /\ "agent1_alive" \in DOMAIN state_b /\ "agent1_alive" \notin DOMAIN state
    /\ move \in Tokens \ {"RIGHT"}
    /\ result_b.move = move

----------------------------------------------------------------------------
(* Properties of the game loop *)

\* the head of agent pn in the game, and the direction chosen for it
GameHead(pn) ==
    LET a == IF pn = 1 THEN game.agent1 ELSE game.agent2
    IN  a.trail[Len(a.trail)]
Chosen(pn) == IF pn = 1 THEN move ELSE result_b.move

\* the direction chosen for agent pn leads to an occupied cell
SteersIntoOccupied(pn) ==
    MarkerAt(game.board, Neighbour(game.board, GameHead(pn), Chosen(pn))) # 0

Surrounded(pn) == EmptyDirections(game.board, GameHead(pn)) = {}

\* C10: in every turn of a game driven by choose_move for both players, the
\* direction returned for a player is one of the four tokens and leads to an
\* occupied wrapped cell only if all four wrapped neighbours of that player's
\* head are occupied in the snapshot, and then the direction is RIGHT.
C10_NoSteeringIntoOccupied ==
    pc = "step" =>
        \A pn \in {1, 2} :
            /\ Chosen(pn) \in Tokens
            /\ SteersIntoOccupied(pn) => (Surrounded(pn) /\ Chosen(pn) = "RIGHT")

\* a later turn in which agent 1 is surrounded and answers RIGHT while agent 2
\* skips an occupied first preference and takes an empty cell
C10_Witness ==
    /\ pc = "step" /\ game.turns > 0
    /\ Surrounded(1) /\ move = "RIGHT" /\ SteersIntoOccupied(1)
    /\ ~Surrounded(2) /\ ~SteersIntoOccupied(2)
    /\ result_b.move # result_b.order[1]

\* the turn counter handed to the engine grows by one per applied step, and an
\* agent that survives a step has its new head marked on the board
GameAdvances ==
    [][pc = "step" =>
        /\ game'.turns = game.turns + 1
        /\ \A pn \in {1, 2} :
             LET a == IF pn = 1 THEN game'.agent1 ELSE game'.agent2
             IN  a.alive => MarkerAt(game'.board, a.trail[Len(a.trail)]) = pn]_vars

====
